---- MODULE Spec2Model ----
(***************************************************************************)
(* Model of "08. Multi-scale Transformer+Feng.py": the feature engineer    *)
(* create_features, the windowed dataset DamDataset, the forward pass of   *)
(* MultiScaleTransformerModel (on tensor shapes) and the training loop     *)
(* train/main.                                                             *)
(*                                                                         *)
(* Numbers are exact rationals [n, d] in lowest terms; NaN is [0, 0].      *)
(* Floating-point rounding is not modelled.                                *)
(***************************************************************************)
EXTENDS Integers, Sequences, FiniteSets, TLC

VARIABLES
    \* create_features (lines 68-99)
    data,             \* the table: [columns, rows]
    scales,           \* the `scales` argument of create_features
    rainfall_scale,   \* dict scale -> list of scale+1 slots
    dam_level_scale,  \* dict scale -> list of scale+1 slots
    month,            \* row index the loop of line 74 handles next
    pc,               \* "loop" | "returned" | "KeyError" ("idle": not running)
    \* DamDataset (lines 31-66)
    excel_file,       \* the table pd.read_excel delivers
    self,             \* the dataset object: [scales, scales2, data, labels]
    dpc,              \* "new" | "constructed" | "KeyError" | "sample" | "ValueError"
    idx,              \* the index of the last __getitem__ call
    sample,           \* what that call returned: [samples, label]
    \* MultiScaleTransformerModel.forward (lines 20-28), on tensor shapes
    fmodel,           \* the module: its constructor arguments
    x_in,             \* x: shape of the input batch
    output,           \* [err, shape] of the call
    fpc,              \* "call" | "returned" | "raised"
    \* main and train (lines 106-146)
    model,            \* the module handed to train
    num_batches,      \* batches train_loader delivers per epoch
    epoch,            \* loop variable of line 145
    batch_idx,        \* loop variable of line 108
    loss_months,      \* the 12-slot list of line 143
    avg_loss,         \* the average last printed (line 119)
    grad,             \* "none" | "zero" | "computed"
    params,           \* number of optimizer steps the parameters have taken
    losses,           \* history: losses[e] is the loss last recorded in epoch e
    tpc               \* position in main/train

feVars == <<data, scales, rainfall_scale, dam_level_scale, month, pc>>
dsVars == <<excel_file, self, dpc, idx, sample>>
fwVars == <<fmodel, x_in, output, fpc>>
trVars == <<model, num_batches, epoch, batch_idx, loss_months, avg_loss, grad,
            params, losses, tpc>>
vars == <<feVars, dsVars, fwVars, trVars>>

\* ---------------------------------------------------------------- bounds
MaxRows == 3     \* rows of a drawn table: 0..MaxRows
MaxVal == 1      \* Rainfall and Dam_Level of a drawn row: 0..MaxVal

\* --------------------------------------------------------------- numbers
Abs(x) == IF x < 0 THEN -x ELSE x

RECURSIVE GCD(_, _)
GCD(a, b) == IF b = 0 THEN a ELSE GCD(b, a % b)

\* the number n/d (d > 0) in lowest terms
Rat(n, d) == LET g == GCD(Abs(n), d) IN [n |-> n \div g, d |-> d \div g]

NaN == [n |-> 0, d |-> 0]

IsNaN(x) == x.d = 0

RatAdd(a, b) ==
    IF IsNaN(a) \/ IsNaN(b) THEN NaN ELSE Rat(a.n * b.d + b.n * a.d, a.d * b.d)

\* a / k for an integer k > 0
RatDivInt(a, k) == IF IsNaN(a) THEN NaN ELSE Rat(a.n, a.d * k)

Range(f) == {f[x] : x \in DOMAIN f}

Max(S) == CHOOSE x \in S : \A y \in S : y <= x

\* ----------------------------------------------------------------- table
\* A column label.  The raw columns carry 0, a derived column its scale.
Col(name, s) == <<name, s>>

YEAR == Col("year", 0)
MONTH == Col("month", 0)
RAINFALL == Col("Rainfall", 0)
DAM_LEVEL == Col("Dam_Level", 0)
TOTAL_RAINFALL(s) == Col("Total_Rainfall", s)
AVG_DAM_LEVEL(s) == Col("Avg_Dam_Level", s)

NRows(t) == Cardinality(DOMAIN t.rows)

HasColumn(t, c) == c \in Range(t.columns)

\* data.loc[row, col] = v : sets one cell; a label that is no column yet
\* becomes a new last column, NaN in every other row.
SetLoc(t, r, c, v) ==
    LET widened ==
            IF HasColumn(t, c) THEN t
            ELSE [columns |-> Append(t.columns, c),
                  rows |-> [i \in DOMAIN t.rows |-> t.rows[i] @@ (c :> NaN)]]
    IN  [widened EXCEPT !.rows[r][c] = v]

\* The table read_excel delivers: one row per month, RangeIndex 0..n-1,
\* year and month first, then Rainfall and (when the sheet has it) Dam_Level.
RawTable(n, rain, dam, hasDam) ==
    [columns |-> IF hasDam THEN <<YEAR, MONTH, RAINFALL, DAM_LEVEL>>
                 ELSE <<YEAR, MONTH, RAINFALL>>,
     rows |-> [i \in 0 .. n - 1 |->
                 [k \in (IF hasDam THEN {YEAR, MONTH, RAINFALL, DAM_LEVEL}
                         ELSE {YEAR, MONTH, RAINFALL}) |->
                    IF k = YEAR THEN Rat(2000 + (i \div 12), 1)
                    ELSE IF k = MONTH THEN Rat((i % 12) + 1, 1)
                    ELSE IF k = RAINFALL THEN Rat(rain[i], 1)
                    ELSE Rat(dam[i], 1)]]]

\* ------------------------------------------------------- create_features
\* lines 70-71: {scale: [0] * (scale + 1) for scale in scales}
InitLists(scs) == [s \in Range(scs) |-> [j \in 0 .. s |-> Rat(0, 1)]]

\* a faulty CircIndex: the + 1 forgotten
CircIndexFromZero(m, scale) == m % scale

\* line 78: index = (month % scale) + 1
CircIndex(m, scale) == (m % scale) + 1

\* a faulty UpdateList: slot 0 is left alone
UpdateListNoCursor(list, m, scale, value) ==
    [list EXCEPT ![CircIndex(m, scale)] = value]

\* lines 81/85 (82/86): write the value at index, the index into slot 0
UpdateList(list, m, scale, value) ==
    [list EXCEPT ![CircIndex(m, scale)] = value,
                 ![0] = Rat(CircIndex(m, scale), 1)]

\* sum(list[lo:hi + 1]); exact addition is associative, and the halves are
\* added separately to keep the evaluation shallow
RECURSIVE SumFrom(_, _, _)
SumFrom(list, lo, hi) ==
    IF lo > hi THEN Rat(0, 1)
    ELSE IF lo = hi THEN list[lo]
    ELSE RatAdd(SumFrom(list, lo, (lo + hi) \div 2),
                SumFrom(list, ((lo + hi) \div 2) + 1, hi))

\* a faulty SumSlots: sum(list) instead of sum(list[1:])
SumSlotsWithCursor(list, scale) == SumFrom(list, 0, scale)

\* lines 92/93: sum(list[1:])
SumSlots(list, scale) == SumFrom(list, 1, scale)

\* a faulty EnoughData: the threshold one row early
EnoughDataOneEarly(m, scs) == m + 1 >= Max(Range(scs))

\* line 89: if month >= max(scales)
EnoughData(m, scs) == m >= Max(Range(scs))

\* lines 90-97: the derived columns of row m, scale by scale in list order
RECURSIVE AddFeatures(_, _, _, _, _, _)
AddFeatures(t, rs, ds, scs, k, m) ==
    IF k > Len(scs) THEN t
    ELSE LET scale == scs[k]
             total_rainfall == SumSlots(rs[scale], scale)
             avg_dam_level == RatDivInt(SumSlots(ds[scale], scale), scale)
         IN  AddFeatures(
                 SetLoc(SetLoc(t, m, TOTAL_RAINFALL(scale), total_rainfall),
                        m, AVG_DAM_LEVEL(scale), avg_dam_level),
                 rs, ds, scs, k + 1, m)

\* lines 74-97: the loop body for row m.  st = [data, rainfall_scale,
\* dam_level_scale, err].  row['Dam_Level'] raises KeyError when the table
\* has no such column, after line 81 has run for the first scale.
RowStep(st, scs, m) ==
    IF ~HasColumn(st.data, DAM_LEVEL)
    THEN [st EXCEPT !.err = "KeyError",
                    !.rainfall_scale[scs[1]] =
                        UpdateList(@, m, scs[1], st.data.rows[m][RAINFALL])]
    ELSE LET rs == [s \in Range(scs) |->
                      UpdateList(st.rainfall_scale[s], m, s, st.data.rows[m][RAINFALL])]
             ds == [s \in Range(scs) |->
                      UpdateList(st.dam_level_scale[s], m, s, st.data.rows[m][DAM_LEVEL])]
         IN  [data |-> IF EnoughData(m, scs)
                       THEN AddFeatures(st.data, rs, ds, scs, 1, m)
                       ELSE st.data,
              rainfall_scale |-> rs,
              dam_level_scale |-> ds,
              err |-> ""]

RECURSIVE IterRows(_, _, _)
IterRows(st, scs, m) ==
    IF m >= NRows(st.data) \/ st.err # "" THEN st
    ELSE IterRows(RowStep(st, scs, m), scs, m + 1)

\* create_features(data, scales), run to its return or its exception
create_features(t, scs) ==
    IterRows([data |-> t, rainfall_scale |-> InitLists(scs),
              dam_level_scale |-> InitLists(scs), err |-> ""], scs, 0)

\* ------------------------------------------------- configurations drawn
Vals == 0 .. MaxVal

\* feature-engineering scale lists drawn for create_features
FeScaleLists == {<<1>>, <<2>>, <<3>>, <<1, 2>>, <<2, 3>>, <<3, 2>>}

\* scales2 of main (line 134)
Scales2 == <<12, 24, 36>>

\* the 60-row table of constant Rainfall 10 and Dam_Level 5
ScenarioTable ==
    RawTable(60, [i \in 0 .. 59 |-> 10], [i \in 0 .. 59 |-> 5], TRUE)

\* ------------------------------------------- create_features, row by row
FeStart(t, scs) ==
    /\ data = t
    /\ scales = scs
    /\ rainfall_scale = InitLists(scs)
    /\ dam_level_scale = InitLists(scs)
    /\ month = 0
    /\ pc = "loop"

DsIdle ==
    /\ excel_file = <<>>
    /\ self = <<>>
    /\ dpc = "idle"
    /\ idx = 0
    /\ sample = <<>>

FwIdle ==
    /\ fmodel = <<>>
    /\ x_in = <<>>
    /\ output = <<>>
    /\ fpc = "idle"

TrIdle ==
    /\ model = ""
    /\ num_batches = 0
    /\ epoch = 0
    /\ batch_idx = 0
    /\ loss_months = <<>>
    /\ avg_loss = NaN
    /\ grad = "none"
    /\ params = 0
    /\ losses = <<>>
    /\ tpc = "idle"

Init ==
    /\ DsIdle
    /\ FwIdle
    /\ TrIdle
    /\ \/ \E n \in 0 .. MaxRows, hasDam \in BOOLEAN, scs \in FeScaleLists :
         \E rain \in [0 .. n - 1 -> Vals], dam \in [0 .. n - 1 -> Vals] :
            FeStart(RawTable(n, rain, dam, hasDam), scs)
       \/ FeStart(ScenarioTable, Scales2)

\* one iteration of the loop of line 74
ProcessRow ==
    /\ pc = "loop"
    /\ month < NRows(data)
    /\ LET st == RowStep([data |-> data, rainfall_scale |-> rainfall_scale,
                          dam_level_scale |-> dam_level_scale, err |-> ""],
                         scales, month)
       IN  /\ data' = st.data
           /\ rainfall_scale' = st.rainfall_scale
           /\ dam_level_scale' = st.dam_level_scale
           /\ pc' = IF st.err # "" THEN st.err ELSE "loop"
           /\ month' = IF st.err # "" THEN month ELSE month + 1
    /\ UNCHANGED scales

\* line 99: return data
Return ==
    /\ pc = "loop"
    /\ month = NRows(data)
    /\ pc' = "returned"
    /\ UNCHANGED <<data, scales, rainfall_scale, dam_level_scale, month>>

Next ==
    \/ ProcessRow /\ UNCHANGED <<dsVars, fwVars, trVars>>
    \/ Return /\ UNCHANGED <<dsVars, fwVars, trVars>>

Spec == Init /\ [][Next]_vars

\* ------------------------------------------------- claims on create_features
\* the sum of column c over rows lo..hi of the table as it was read
RECURSIVE ColumnSum(_, _, _, _)
ColumnSum(t, c, lo, hi) ==
    IF lo > hi THEN Rat(0, 1)
    ELSE IF lo = hi THEN t.rows[lo][c]
    ELSE RatAdd(ColumnSum(t, c, lo, (lo + hi) \div 2),
                ColumnSum(t, c, ((lo + hi) \div 2) + 1, hi))

Derived(t, i, s) ==
    /\ HasColumn(t, TOTAL_RAINFALL(s))
    /\ HasColumn(t, AVG_DAM_LEVEL(s))
    /\ ~IsNaN(t.rows[i][TOTAL_RAINFALL(s)])
    /\ ~IsNaN(t.rows[i][AVG_DAM_LEVEL(s)])

\* C1: after create_features, for every scale s and every row i >= max(scales),
\* Total_Rainfall_s at row i is the sum of Rainfall over rows i-s+1..i and
\* Avg_Dam_Level_s at row i is the sum of Dam_Level over those rows divided by s.
C1_RollingAggregates ==
    pc = "returned" =>
        \A s \in Range(scales) : \A i \in DOMAIN data.rows :
            i >= Max(Range(scales)) =>
                /\ Derived(data, i, s)
                /\ data.rows[i][TOTAL_RAINFALL(s)] = ColumnSum(data, RAINFALL, i - s + 1, i)
                /\ data.rows[i][AVG_DAM_LEVEL(s)] =
                       RatDivInt(ColumnSum(data, DAM_LEVEL, i - s + 1, i), s)

\* a returned table with a row past the threshold whose window of a scale
\* s >= 2 has wrapped around the buffer and sums to less than the whole column
C1_Witness ==
    /\ pc = "returned"
    /\ \E s \in Range(scales) : \E i \in DOMAIN data.rows :
          /\ s >= 2 /\ i >= Max(Range(scales)) /\ i >= s
          /\ data.rows[i][TOTAL_RAINFALL(s)].n > 0
          /\ data.rows[i][TOTAL_RAINFALL(s)] # ColumnSum(data, RAINFALL, 0, i)
          /\ data.rows[i][AVG_DAM_LEVEL(s)].d > 1

IsScenario ==
    /\ scales = Scales2
    /\ NRows(data) = 60
    /\ \A i \in DOMAIN data.rows :
          data.rows[i][RAINFALL] = Rat(10, 1) /\ data.rows[i][DAM_LEVEL] = Rat(5, 1)

ScenarioHolds(from) ==
    (IsScenario /\ pc = "returned") =>
        \A s \in Range(scales) : \A i \in from .. 59 :
            /\ Derived(data, i, s)
            /\ data.rows[i][TOTAL_RAINFALL(s)] = Rat(10 * s, 1)
            /\ data.rows[i][AVG_DAM_LEVEL(s)] = Rat(5, 1)

\* C2 as stated: in the 60-row constant scenario with scales [12,24,36] every
\* Total_Rainfall_s is 10*s and every Avg_Dam_Level_s is 5 on rows 35..59.
C2_AsStated == ScenarioHolds(35)

\* C2 amended: in the 60-row constant scenario with scales [12,24,36] every
\* Total_Rainfall_s is 10*s and every Avg_Dam_Level_s is 5 on rows 36..59
\* (row 35 has no derived value).
C2_ScenarioFromRow36 ==
    /\ ScenarioHolds(36)
    /\ (IsScenario /\ pc = "returned") =>
           \A s \in Range(scales) : ~Derived(data, 35, s)

C2_Witness ==
    /\ IsScenario
    /\ pc = "returned"
    /\ data.rows[59][TOTAL_RAINFALL(36)] = Rat(360, 1)

\* C3: in every state, for every row i < max(scales) and every scale s the
\* derived columns are absent or NaN at row i (never a computed value, never
\* a zero), although both buffers of every scale were written for that row.
C3_EarlyRowsUndefined ==
    \A s \in Range(scales) : \A i \in DOMAIN data.rows :
        i < Max(Range(scales)) =>
            /\ \/ ~HasColumn(data, TOTAL_RAINFALL(s))
               \/ IsNaN(data.rows[i][TOTAL_RAINFALL(s)])
            /\ \/ ~HasColumn(data, AVG_DAM_LEVEL(s))
               \/ IsNaN(data.rows[i][AVG_DAM_LEVEL(s)])
            /\ (i = month - 1 /\ pc # "KeyError") =>
                   /\ rainfall_scale[s][CircIndex(i, s)] = data.rows[i][RAINFALL]
                   /\ dam_level_scale[s][CircIndex(i, s)] = data.rows[i][DAM_LEVEL]

\* a returned table that has the derived columns, NaN in row max(scales)-1
C3_Witness ==
    /\ pc = "returned"
    /\ \E s \in Range(scales) :
          /\ HasColumn(data, TOTAL_RAINFALL(s))
          /\ Max(Range(scales)) - 1 \in DOMAIN data.rows
          /\ IsNaN(data.rows[Max(Range(scales)) - 1][TOTAL_RAINFALL(s)])
          /\ IsNaN(data.rows[0][AVG_DAM_LEVEL(s)])
          /\ ~IsNaN(data.rows[Max(Range(scales))][TOTAL_RAINFALL(s)])

RowsProcessed == pc \in {"loop", "returned"} /\ month >= 1

CursorInRange ==
    \A s \in Range(scales) :
        /\ rainfall_scale[s][0].d = 1 /\ rainfall_scale[s][0].n \in 1 .. s
        /\ dam_level_scale[s][0] = rainfall_scale[s][0]

AggregateSkipsSlot0 ==
    \A s \in Range(scales) :
        EnoughData(month - 1, scales) =>
            /\ data.rows[month - 1][TOTAL_RAINFALL(s)] = SumFrom(rainfall_scale[s], 1, s)
            /\ data.rows[month - 1][AVG_DAM_LEVEL(s)] =
                   RatDivInt(SumFrom(dam_level_scale[s], 1, s), s)

\* C10 as stated: once a row is processed, slot 0 of both buffers of every
\* scale s is in 1..s, is the slot the following row will be written to, and
\* is not part of the summed aggregate.
C10_AsStated ==
    RowsProcessed =>
        /\ CursorInRange
        /\ AggregateSkipsSlot0
        /\ \A s \in Range(scales) :
              month < NRows(data) => rainfall_scale[s][0].n = CircIndex(month, s)

\* C10 amended: once a row is processed, slot 0 of both buffers of every scale
\* s is in 1..s and is the slot the row just processed was written to, so it
\* cycles 1..s with the rows; the following row is written to slot
\* (cursor mod s) + 1; slot 0 is not part of the summed aggregate.
C10_CursorIsLastWritten ==
    RowsProcessed =>
        /\ CursorInRange
        /\ AggregateSkipsSlot0
        /\ \A s \in Range(scales) :
              /\ rainfall_scale[s][0].n = ((month - 1) % s) + 1
              /\ rainfall_scale[s][rainfall_scale[s][0].n] = data.rows[month - 1][RAINFALL]
              /\ dam_level_scale[s][dam_level_scale[s][0].n] = data.rows[month - 1][DAM_LEVEL]
              /\ CircIndex(month, s) = (rainfall_scale[s][0].n % s) + 1

\* a scale s >= 2 whose cursor has wrapped back to 1 with a row still to come
C10_Witness ==
    /\ pc = "loop"
    /\ month < NRows(data)
    /\ \E s \in Range(scales) :
          /\ s >= 2 /\ month > s
          /\ rainfall_scale[s][0].n = 1
          /\ EnoughData(month - 1, scales)

\* ------------------------------------------------------------ DamDataset
RatSub(a, b) ==
    IF IsNaN(a) \/ IsNaN(b) THEN NaN ELSE Rat(a.n * b.d - b.n * a.d, a.d * b.d)

RatMul(a, b) == IF IsNaN(a) \/ IsNaN(b) THEN NaN ELSE Rat(a.n * b.n, a.d * b.d)

\* a / b for b > 0
RatDiv(a, b) == IF IsNaN(a) \/ IsNaN(b) THEN NaN ELSE Rat(a.n * b.d, a.d * b.n)

Sign(x) == IF x > 0 THEN 1 ELSE IF x < 0 THEN -1 ELSE 0

\* pandas skips NaN in mean() and std(): the rows that count
ValidRows(t, c) == {i \in DOMAIN t.rows : ~IsNaN(t.rows[i][c])}

\* the sum of the non-NaN cells of column c from row i on
RECURSIVE ColTotal(_, _, _)
ColTotal(t, c, i) ==
    IF i >= NRows(t) THEN Rat(0, 1)
    ELSE RatAdd(IF IsNaN(t.rows[i][c]) THEN Rat(0, 1) ELSE t.rows[i][c],
                ColTotal(t, c, i + 1))

\* data[column].mean()
ColMean(t, c) ==
    IF ValidRows(t, c) = {} THEN NaN
    ELSE RatDivInt(ColTotal(t, c, 0), Cardinality(ValidRows(t, c)))

\* the sum of the squared deviations of the non-NaN cells from row i on
RECURSIVE SqDevTotal(_, _, _, _)
SqDevTotal(t, c, mean, i) ==
    IF i >= NRows(t) THEN Rat(0, 1)
    ELSE RatAdd(IF IsNaN(t.rows[i][c]) THEN Rat(0, 1)
                ELSE RatMul(RatSub(t.rows[i][c], mean), RatSub(t.rows[i][c], mean)),
                SqDevTotal(t, c, mean, i + 1))

\* data[column].std() squared: the sample variance (ddof = 1), NaN when
\* fewer than two cells count
ColVar(t, c) ==
    IF Cardinality(ValidRows(t, c)) < 2 THEN NaN
    ELSE RatDivInt(SqDevTotal(t, c, ColMean(t, c), 0), Cardinality(ValidRows(t, c)) - 1)

\* A normalized cell z is kept as its sign and its square, both exact:
\* z = sgn * sqrt(sq).  NaN is [0, NaN].
ZNaN == [sgn |-> 0, sq |-> NaN]

\* line 44: (x - mean) / std.  A zero std divides 0 by 0: NaN.
ZScore(x, mean, var) ==
    IF IsNaN(x) \/ IsNaN(mean) \/ IsNaN(var) \/ var.n = 0 THEN ZNaN
    ELSE [sgn |-> Sign(RatSub(x, mean).n),
          sq |-> RatDiv(RatMul(RatSub(x, mean), RatSub(x, mean)), var)]

\* lines 43-44: every column but the first two is replaced by its z-scores
Normalize(t) ==
    LET kept == {t.columns[k] : k \in {j \in DOMAIN t.columns : j <= 2}}
    IN  [columns |-> t.columns,
         rows |-> [i \in DOMAIN t.rows |->
                     [c \in Range(t.columns) |->
                        IF c \in kept THEN t.rows[i][c]
                        ELSE ZScore(t.rows[i][c], ColMean(t, c), ColVar(t, c))]]]

\* line 50: data.drop(c, axis=1)
Drop(t, c) ==
    [columns |-> SelectSeq(t.columns, LAMBDA k : k # c),
     rows |-> [i \in DOMAIN t.rows |->
                 [k \in Range(t.columns) \ {c} |-> t.rows[i][k]]]]

NoDataset == [scales |-> <<>>, scales2 |-> <<>>, data |-> <<>>, labels |-> <<>>]

\* lines 32-50: DamDataset.__init__.  [err, self]; KeyError comes from
\* row['Dam_Level'] (line 82) or, for a table without rows, from line 47.
DamDataset_init(file, scs, scs2) ==
    LET fe == create_features(file, scs2)
        normalized == Normalize(fe.data)
    IN  IF fe.err # "" THEN [err |-> fe.err, self |-> NoDataset]
        ELSE IF ~HasColumn(normalized, DAM_LEVEL)
        THEN [err |-> "KeyError", self |-> NoDataset]
        ELSE [err |-> "",
              self |-> [scales |-> scs,
                        scales2 |-> scs2,
                        data |-> Drop(normalized, DAM_LEVEL),
                        labels |-> [i \in DOMAIN normalized.rows |->
                                      normalized.rows[i][DAM_LEVEL]]]]

\* one row of data.iloc[...].values: the cells in column order
RowValues(t, r) == [k \in DOMAIN t.columns |-> t.rows[r][t.columns[k]]]

\* line 59: start = max(0, idx - scale + 1)
WindowStart(i, scale) == Max({0, i - scale + 1})

\* line 60: self.data.iloc[start:idx + 1].values
Window(t, i, scale) ==
    [k \in 1 .. (i - WindowStart(i, scale) + 1) |->
        RowValues(t, WindowStart(i, scale) + k - 1)]

\* line 62: torch.Tensor(samples) takes a list of equally shaped arrays and
\* raises ValueError on a ragged one
Ragged(list) == \E j, k \in DOMAIN list : Len(list[j]) # Len(list[k])

\* lines 52-66: DamDataset.__getitem__ for 0 <= i < number of rows
DamDataset_getitem(ds, i) ==
    LET samples == [k \in DOMAIN ds.scales |-> Window(ds.data, i, ds.scales[k])]
    IN  IF Ragged(samples)
        THEN [err |-> "ValueError", samples |-> <<>>, label |-> <<>>]
        ELSE [err |-> "", samples |-> samples, label |-> <<ds.labels[i]>>]

\* (scales, scales2) pairs drawn for DamDataset
DsConfigs ==
    { [scales |-> <<2>>, scales2 |-> <<1>>],
      [scales |-> <<1, 2>>, scales2 |-> <<1>>],
      [scales |-> <<2, 2>>, scales2 |-> <<2>>],
      [scales |-> <<2, 3>>, scales2 |-> <<1, 2>>],
      [scales |-> <<3>>, scales2 |-> <<3>>] }

FeIdle ==
    /\ data = <<>>
    /\ scales = <<>>
    /\ rainfall_scale = <<>>
    /\ dam_level_scale = <<>>
    /\ month = 0
    /\ pc = "idle"

NoSample == [samples |-> <<>>, label |-> <<>>]

InitDataset ==
    /\ FeIdle
    /\ FwIdle
    /\ TrIdle
    /\ \E n \in 0 .. MaxRows, hasDam \in BOOLEAN, cfg \in DsConfigs :
         \E rain \in [0 .. n - 1 -> Vals], dam \in [0 .. n - 1 -> Vals] :
            /\ excel_file = RawTable(n, rain, dam, hasDam)
            /\ self = [NoDataset EXCEPT !.scales = cfg.scales, !.scales2 = cfg.scales2]
    /\ dpc = "new"
    /\ idx = 0
    /\ sample = NoSample

\* DamDataset(excel_file, scales, scales2), line 102
Construct ==
    /\ dpc = "new"
    /\ LET r == DamDataset_init(excel_file, self.scales, self.scales2)
       IN  IF r.err # ""
           THEN dpc' = r.err /\ UNCHANGED self
           ELSE dpc' = "constructed" /\ self' = r.self
    /\ UNCHANGED <<excel_file, idx, sample>>

\* dataset[i] for a valid index i
GetItem ==
    /\ dpc \in {"constructed", "sample", "ValueError"}
    /\ \E i \in DOMAIN self.labels :
          LET r == DamDataset_getitem(self, i)
          IN  /\ idx' = i
              /\ dpc' = IF r.err # "" THEN r.err ELSE "sample"
              /\ sample' = [samples |-> r.samples, label |-> r.label]
    /\ UNCHANGED <<excel_file, self>>

NextDataset ==
    \/ Construct /\ UNCHANGED <<feVars, fwVars, trVars>>
    \/ GetItem /\ UNCHANGED <<feVars, fwVars, trVars>>

SpecDataset == InitDataset /\ [][NextDataset]_vars

\* ----------------------------------------------------- claims on DamDataset
Called == dpc \in {"sample", "ValueError"}

\* C4 as stated: every call dataset[i] with a valid i returns, in the order of
\* self.scales, one window per scale s holding the feature rows
\* max(0, i-s+1)..i in time order, of length min(s, i+1) (exactly s once
\* i >= max(scales)-1), and the label [labels[i]].
C4_AsStated ==
    Called =>
        /\ dpc = "sample"
        /\ DOMAIN sample.samples = DOMAIN self.scales
        /\ \A k \in DOMAIN self.scales :
              LET s == self.scales[k]
                  first == IF idx - s + 1 > 0 THEN idx - s + 1 ELSE 0
                  w == sample.samples[k]
              IN  /\ Len(w) = (IF s < idx + 1 THEN s ELSE idx + 1)
                  /\ idx >= Max(Range(self.scales)) - 1 => Len(w) = s
                  /\ \A j \in DOMAIN w : w[j] = RowValues(self.data, first + j - 1)
        /\ sample.label = <<self.labels[idx]>>

ScaleExceedsHistory ==
    \E s \in Range(self.scales) \cup Range(self.scales2) : s > NRows(excel_file)

\* C6 as stated: when Dam_Level is absent or a configured scale (input or
\* feature-engineering) exceeds the number of rows, construction fails with
\* an error: no dataset is constructed and no sample is returned.
C6_AsStated ==
    (~HasColumn(excel_file, DAM_LEVEL) \/ ScaleExceedsHistory) =>
        dpc \in {"new", "KeyError"}

\* the table read with Dam_Level of row i replaced by v
WithDamLevel(t, i, v) == [t EXCEPT !.rows[i][DAM_LEVEL] = Rat(v, 1)]

\* C8 as stated: the windows returned for index i do not depend on Dam_Level
\* of row i: every table differing from the one read only in that cell
\* yields the same windows for i.
C8_AsStated ==
    dpc = "sample" =>
        \A v \in Vals :
            DamDataset_getitem(
                DamDataset_init(WithDamLevel(excel_file, idx, v),
                                self.scales, self.scales2).self,
                idx).samples = sample.samples

\* ------------------------------------------ MultiScaleTransformerModel
\* A tensor is modelled by its shape; a call yields [err, shape].
Raised(e) == [err |-> e, shape |-> <<>>]

Tensor(shape) == [err |-> "", shape |-> shape]

\* nn.Linear(in, out) applied to a tensor: the last dimension must be `in`
Linear(shape, in, out) ==
    IF shape[Len(shape)] = in THEN Tensor([shape EXCEPT ![Len(shape)] = out])
    ELSE Raised("RuntimeError")

\* line 24: self.transformers[i](encoded).  nn.Transformer.forward takes
\* (src, tgt, ...), tgt without a default: the call with src alone raises.
TransformerSrcOnly(shape) == Raised("TypeError")

\* lines 23-25: one branch; x[:, i, :, :] needs four dimensions, i < x[2]
Branch(m, xs, i) ==
    IF Len(xs) # 4 \/ i > xs[2] THEN Raised("IndexError")
    ELSE LET encoded == Linear(<<xs[1], xs[3], xs[4]>>, m.input_size, m.hidden_size)
         IN  IF encoded.err # "" THEN encoded ELSE TransformerSrcOnly(encoded.shape)

\* lines 22-25: the branches 1..num_scales in order; the first to raise ends
\* the call.  outs: the shapes collected so far.
RECURSIVE Branches(_, _, _, _)
Branches(m, xs, i, outs) ==
    IF i > m.num_scales THEN [err |-> "", outs |-> outs]
    ELSE LET b == Branch(m, xs, i)
         IN  IF b.err # "" THEN [err |-> b.err, outs |-> outs]
             ELSE Branches(m, xs, i + 1, Append(outs, b.shape))

RECURSIVE LastDimTotal(_, _)
LastDimTotal(outs, k) ==
    IF k > Len(outs) THEN 0 ELSE outs[k][Len(outs[k])] + LastDimTotal(outs, k + 1)

\* line 26: torch.cat(outs, dim=-1)
Cat(outs) == [outs[1] EXCEPT ![Len(outs[1])] = LastDimTotal(outs, 1)]

\* lines 20-28: forward
forward(m, xs) ==
    LET r == Branches(m, xs, 1, <<>>)
    IN  IF r.err # "" THEN Raised(r.err)
        ELSE Linear(Cat(r.outs), m.hidden_size * m.num_scales, m.output_size)

\* lines 126-133 of main
input_size == 6
hidden_size == 32
num_layers == 2
output_size == 1
batch_size == 64
Scales == <<12, 24, 36, 48>>

\* line 139: the module main constructs, for num_scales branches
MultiScaleTransformerModel(in, ns) ==
    [input_size |-> in, hidden_size |-> hidden_size, output_size |-> output_size,
     num_layers |-> num_layers, num_scales |-> ns]

MaxBatch == 3      \* batch sizes drawn: 1..MaxBatch
MaxScales == 2     \* number of scales drawn: 1..MaxScales
MaxLen == 3        \* window lengths drawn: 1..MaxLen

InitForward ==
    /\ FeIdle
    /\ DsIdle
    /\ TrIdle
    /\ \E B \in 1 .. MaxBatch, S \in 1 .. MaxScales, T \in 1 .. MaxLen,
          F \in {input_size, input_size + 1}, ns \in 1 .. MaxScales :
          /\ x_in = <<B, S, T, F>>
          /\ fmodel = MultiScaleTransformerModel(input_size, ns)
    /\ output = Raised("")
    /\ fpc = "call"

\* model(data), line 111
Forward ==
    /\ fpc = "call"
    /\ output' = forward(fmodel, x_in)
    /\ fpc' = IF output'.err # "" THEN "raised" ELSE "returned"
    /\ UNCHANGED <<fmodel, x_in>>

NextForward == Forward /\ UNCHANGED <<feVars, dsVars, trVars>>

SpecForward == InitForward /\ [][NextForward]_vars

\* C7 as stated: for every batch size B >= 1, forward on a batch of B samples
\* with one window per scale and rows of the width the encoders take yields
\* a prediction of shape (B, 1).
C7_AsStated ==
    (fpc # "call" /\ x_in[2] = fmodel.num_scales /\ x_in[4] = fmodel.input_size) =>
        output = Tensor(<<x_in[1], 1>>)

\* -------------------------------------------------------- main and train
MaxEpochs == 13    \* stands for epochs = 1000 of line 131
MaxBatches == 2    \* batches per epoch drawn: 1..MaxBatches

\* loss.item() of a batch: the values drawn
LossVals == {1, 2}

\* the module handed to train: the one main constructs (line 139), or any
\* other module, whose forward returns a (B, 1) prediction
Models == {"MultiScaleTransformerModel", "Module"}

\* a well-formed batch for the model of main: batch_size samples, one window
\* of scales[1] rows per scale, rows of input_size values
MainBatch == <<batch_size, Len(Scales), Scales[1], input_size>>

\* line 111: output = model(data)
ModelCall(m) ==
    IF m = "MultiScaleTransformerModel"
    THEN forward(MultiScaleTransformerModel(input_size, Len(Scales)), MainBatch)
    ELSE Tensor(<<batch_size, output_size>>)

\* a faulty LossSlot: an 11-slot cycle
LossSlotMod11(e) == e % 11

\* line 115: loss_months[epoch % 12]
LossSlot(e) == e % 12

RECURSIVE SumInts(_, _, _)
SumInts(f, lo, hi) == IF lo > hi THEN 0 ELSE f[lo] + SumInts(f, lo + 1, hi)

\* line 118: sum(loss_months) / len(loss_months)
Average(lm) == Rat(SumInts(lm, 0, 11), Cardinality(DOMAIN lm))

InitTrain ==
    /\ FeIdle
    /\ DsIdle
    /\ FwIdle
    /\ model \in Models
    /\ num_batches \in 1 .. MaxBatches
    /\ epoch = 0
    /\ batch_idx = 0
    /\ loss_months = [i \in 0 .. 11 |-> 0]
    /\ avg_loss = NaN
    /\ grad = "none"
    /\ params = 0
    /\ losses = <<>>
    /\ tpc = "main"

\* lines 145-146 and 107-108: the next epoch calls train, which takes the
\* first batch
CallTrain ==
    /\ tpc = "main"
    /\ epoch < MaxEpochs
    /\ epoch' = epoch + 1
    /\ batch_idx' = 0
    /\ tpc' = "zero_grad"
    /\ UNCHANGED <<model, num_batches, loss_months, avg_loss, grad, params, losses>>

\* line 110: optimizer.zero_grad()
ZeroGrad ==
    /\ tpc = "zero_grad"
    /\ grad' = "zero"
    /\ tpc' = "forward"
    /\ UNCHANGED <<model, num_batches, epoch, batch_idx, loss_months, avg_loss,
                   params, losses>>

\* line 111: output = model(data); an exception ends the run
ModelForward ==
    /\ tpc = "forward"
    /\ tpc' = IF ModelCall(model).err # "" THEN ModelCall(model).err ELSE "loss"
    /\ UNCHANGED <<model, num_batches, epoch, batch_idx, loss_months, avg_loss,
                   grad, params, losses>>

\* lines 114-119: the loss, its slot, the average, the print
RecordLoss ==
    /\ tpc = "loss"
    /\ \E loss \in LossVals :
          /\ loss_months' = [loss_months EXCEPT ![LossSlot(epoch)] = loss]
          /\ losses' = IF Len(losses) < epoch THEN Append(losses, loss)
                       ELSE [losses EXCEPT ![epoch] = loss]
    /\ avg_loss' = Average(loss_months')
    /\ tpc' = "backward"
    /\ UNCHANGED <<model, num_batches, epoch, batch_idx, grad, params>>

\* line 121: loss.backward()
Backward ==
    /\ tpc = "backward"
    /\ grad' = "computed"
    /\ tpc' = "step"
    /\ UNCHANGED <<model, num_batches, epoch, batch_idx, loss_months, avg_loss,
                   params, losses>>

\* line 122: optimizer.step(), then the next batch or the return to main
Step ==
    /\ tpc = "step"
    /\ params' = params + 1
    /\ batch_idx' = batch_idx + 1
    /\ tpc' = IF batch_idx + 1 < num_batches THEN "zero_grad" ELSE "main"
    /\ UNCHANGED <<model, num_batches, epoch, loss_months, avg_loss, grad, losses>>

\* line 145: the range is exhausted, main returns
Finish ==
    /\ tpc = "main"
    /\ epoch = MaxEpochs
    /\ tpc' = "done"
    /\ UNCHANGED <<model, num_batches, epoch, batch_idx, loss_months, avg_loss,
                   grad, params, losses>>

NextTrain ==
    \/ CallTrain /\ UNCHANGED <<feVars, dsVars, fwVars>>
    \/ ZeroGrad /\ UNCHANGED <<feVars, dsVars, fwVars>>
    \/ ModelForward /\ UNCHANGED <<feVars, dsVars, fwVars>>
    \/ RecordLoss /\ UNCHANGED <<feVars, dsVars, fwVars>>
    \/ Backward /\ UNCHANGED <<feVars, dsVars, fwVars>>
    \/ Step /\ UNCHANGED <<feVars, dsVars, fwVars>>
    \/ Finish /\ UNCHANGED <<feVars, dsVars, fwVars>>

SpecTrain == InitTrain /\ [][NextTrain]_vars

\* the sum of the losses recorded in epochs lo..hi
RECURSIVE LossSum(_, _)
LossSum(lo, hi) == IF lo > hi THEN 0 ELSE losses[lo] + LossSum(lo + 1, hi)

\* C5: with one batch per epoch, the average printed in epoch 12 is
\* mean(L1..L12) and the one printed in epoch 13 is mean(L13, L2..L12).
C5_RollingAverage ==
    (num_batches = 1 /\ tpc = "backward") =>
        /\ epoch = 12 => avg_loss = Rat(LossSum(1, 12), 12)
        /\ epoch = 13 => avg_loss = Rat(losses[13] + LossSum(2, 12), 12)

\* epoch 13 has printed its average, and L13 differs from the L1 it replaced
C5_Witness ==
    /\ num_batches = 1
    /\ tpc = "backward"
    /\ epoch = 13
    /\ losses[13] # losses[1]
    /\ loss_months[1] = losses[13]

Ended == tpc \in {"done", "TypeError", "RuntimeError", "IndexError"}

\* C9 as stated: the run of main does epochs 1..epochs and then terminates;
\* every batch goes through zero_grad, forward, loss and report, backward and
\* one optimizer step in that order, so the parameters change exactly once
\* per batch, by the optimizer step alone.
C9_AsStated ==
    model = "MultiScaleTransformerModel" =>
        /\ Ended => (tpc = "done" /\ epoch = MaxEpochs)
        /\ tpc = "main" => params = epoch * num_batches
        /\ tpc = "done" => params = MaxEpochs * num_batches
        /\ tpc \in {"zero_grad", "forward", "loss", "backward", "step"} =>
               params = (epoch - 1) * num_batches + batch_idx
        /\ tpc \in {"forward", "loss"} => grad = "zero"
        /\ tpc = "step" => grad = "computed"

====
